---- MODULE Spec2Model ----
(***************************************************************************)
(* Model of the dev-graph backend: parser.py (parse_file, resolve_import,  *)
(* build_graph) and main.py (ingest_repo, websocket_endpoint,              *)
(* github_webhook).                                                        *)
(*                                                                         *)
(* A Python str is a sequence of lexemes: the one-character separators     *)
(* "/", ".", "@", ":", " " and maximal runs of other characters ("utils",  *)
(* "ts", "node_modules").  startswith/endswith/replace/strip/+ act on      *)
(* these sequences as they act on the characters, because every argument   *)
(* the code passes to them ('.', '/', '@', the extensions) is made of      *)
(* whole lexemes.                                                          *)
(***************************************************************************)
EXTENDS Integers, Sequences, FiniteSets, TLC

(***************************************************************************)
(* str helpers                                                             *)
(***************************************************************************)
StartsWith(s, p) == Len(s) >= Len(p) /\ SubSeq(s, 1, Len(p)) = p

EndsWith(s, p) == Len(s) >= Len(p) /\ SubSeq(s, Len(s) - Len(p) + 1, Len(s)) = p

\* str.replace(a, b) for one-character a and b
Replace(s, a, b) == [i \in 1..Len(s) |-> IF s[i] = a THEN b ELSE s[i]]

RECURSIVE LStrip(_)
LStrip(s) == IF s # <<>> /\ Head(s) = " " THEN LStrip(Tail(s)) ELSE s

RECURSIVE RStrip(_)
RStrip(s) == IF s # <<>> /\ s[Len(s)] = " " THEN RStrip(SubSeq(s, 1, Len(s) - 1)) ELSE s

\* str.strip()
Strip(s) == RStrip(LStrip(s))

Range(s) == {s[i] : i \in 1..Len(s)}

(***************************************************************************)
(* parser.py configuration                                                 *)
(***************************************************************************)
SUPPORTED_EXTENSIONS ==
    << <<".", "py">>, <<".", "js">>, <<".", "ts">>, <<".", "tsx">>, <<".", "jsx">>,
       <<".", "java">>, <<".", "cpp">>, <<".", "c">>, <<".", "h">>, <<".", "cs">> >>

IGNORE_DIRS ==
    { <<"node_modules">>, <<".", "git">>, <<"__pycache__">>, <<"build">>, <<"dist">>,
      <<".", "next">>, <<".", "expo">>, <<".", "gradle">> }

\* s.endswith(SUPPORTED_EXTENSIONS)
HasSupportedExt(s) == \E i \in 1..Len(SUPPORTED_EXTENSIONS) : EndsWith(s, SUPPORTED_EXTENSIONS[i])

(***************************************************************************)
(* pathlib / os.path.  A path is [anchor, parts]: anchor is "" (relative), *)
(* "/" or "//" (POSIX keeps exactly two leading slashes); parts are the    *)
(* segments between slashes, each a str, with empty and "." segments       *)
(* dropped and ".." kept.                                                  *)
(***************************************************************************)
RECURSIVE SplitAcc(_, _, _)
SplitAcc(s, cur, out) ==
    IF s = <<>> THEN Append(out, cur)
    ELSE IF Head(s) = "/" THEN SplitAcc(Tail(s), <<>>, Append(out, cur))
    ELSE SplitAcc(Tail(s), Append(cur, Head(s)), out)

\* s.split('/')
SplitSlash(s) == SplitAcc(s, <<>>, <<>>)

RECURSIVE DropTrivial(_)
DropTrivial(segs) ==
    IF segs = <<>> THEN <<>>
    ELSE IF Head(segs) = <<>> \/ Head(segs) = <<".">> THEN DropTrivial(Tail(segs))
    ELSE <<Head(segs)>> \o DropTrivial(Tail(segs))

RECURSIVE LeadingSlashes(_)
LeadingSlashes(s) == IF s # <<>> /\ Head(s) = "/" THEN 1 + LeadingSlashes(Tail(s)) ELSE 0

\* Path(s)
Path(s) ==
    [anchor |-> IF LeadingSlashes(s) = 0 THEN ""
                ELSE IF LeadingSlashes(s) = 2 THEN "//" ELSE "/",
     parts  |-> DropTrivial(SplitSlash(s))]

\* Path.__truediv__: an anchored right operand replaces the left one
PathJoin(a, s) ==
    IF Path(s).anchor # "" THEN Path(s)
    ELSE [anchor |-> a.anchor, parts |-> a.parts \o Path(s).parts]

RECURSIVE JoinSegs(_)
JoinSegs(parts) ==
    IF parts = <<>> THEN <<>>
    ELSE IF Len(parts) = 1 THEN parts[1]
    ELSE parts[1] \o <<"/">> \o JoinSegs(Tail(parts))

\* str(path)
PathStr(p) ==
    IF p.anchor = "" /\ p.parts = <<>> THEN <<".">>
    ELSE (IF p.anchor = "" THEN <<>> ELSE IF p.anchor = "/" THEN <<"/">> ELSE <<"/", "/">>)
         \o JoinSegs(p.parts)

\* os.path.join(a, b) for a relative b
OsPathJoin(a, b) ==
    IF a = <<>> \/ a[Len(a)] = "/" THEN a \o b ELSE a \o <<"/">> \o b

IsPrefix(p, q) == Len(p) <= Len(q) /\ SubSeq(q, 1, Len(p)) = p

\* path.relative_to(root): purely lexical; raised = ValueError
RelativeTo(p, root) ==
    IF p.anchor = root.anchor /\ IsPrefix(root.parts, p.parts)
    THEN [raised |-> FALSE,
          path   |-> [anchor |-> "", parts |-> SubSeq(p.parts, Len(root.parts) + 1, Len(p.parts))]]
    ELSE [raised |-> TRUE, path |-> p]

(***************************************************************************)
(* The filesystem.  disk is the set of absolute paths (sequences of        *)
(* segments from "/") of the regular files; a directory exists when it is  *)
(* on the way to a file, or is one of dirs (directories that exist even    *)
(* when empty).                                                            *)
(***************************************************************************)
IsDir(disk, dirs, d) ==
    \/ d = <<>>
    \/ \E f \in disk : IsPrefix(d, f) /\ d # f
    \/ \E e \in dirs : IsPrefix(d, e)

\* the kernel's walk over the components: ".." steps up from a directory
RECURSIVE ResolveParts(_, _, _, _)
ResolveParts(disk, dirs, cur, parts) ==
    IF parts = <<>> THEN [ok |-> TRUE, at |-> cur]
    ELSE IF ~IsDir(disk, dirs, cur) THEN [ok |-> FALSE, at |-> cur]
    ELSE IF Head(parts) = <<".", ".">>
         THEN ResolveParts(disk, dirs, IF cur = <<>> THEN cur ELSE SubSeq(cur, 1, Len(cur) - 1),
                           Tail(parts))
    ELSE ResolveParts(disk, dirs, Append(cur, Head(parts)), Tail(parts))

\* Path.exists() of an anchored path ("//" is "/" on Linux)
PathExists(disk, dirs, p) ==
    LET r == ResolveParts(disk, dirs, <<>>, p.parts)
    IN  r.ok /\ (r.at \in disk \/ IsDir(disk, dirs, r.at))

(***************************************************************************)
(* parser.resolve_import.  The result is [raised, value]: raised is the    *)
(* ValueError of relative_to propagating out of the function.              *)
(***************************************************************************)
\* the candidates list, lines 88-105 (called only after the startswith test)
Candidates(base) ==
    IF ~HasSupportedExt(base)
    THEN [i \in 1..Len(SUPPORTED_EXTENSIONS) |->
              Replace(base, ".", "/") \o SUPPORTED_EXTENSIONS[i]]
         \o
         [i \in 1..Len(SUPPORTED_EXTENSIONS) |->
              OsPathJoin(Replace(base, ".", "/"), <<"index">> \o SUPPORTED_EXTENSIONS[i])]
    ELSE <<base>>

RECURSIVE FirstExisting(_, _, _, _, _)
FirstExisting(disk, dirs, root, cands, import_path) ==
    IF cands = <<>> THEN [raised |-> FALSE, value |-> import_path]
    ELSE LET full == PathJoin(Path(root), Head(cands))
         IN  IF PathExists(disk, dirs, full)
             THEN LET rel == RelativeTo(full, Path(root))
                  IN  IF rel.raised THEN [raised |-> TRUE, value |-> import_path]
                      ELSE [raised |-> FALSE, value |-> PathStr(rel.path)]
             ELSE FirstExisting(disk, dirs, root, Tail(cands), import_path)

resolve_import(disk, dirs, import_path, repo_root) ==
    IF \/ StartsWith(import_path, <<".">>)
       \/ StartsWith(import_path, <<"/">>)
       \/ StartsWith(import_path, <<"@">>)
    THEN FirstExisting(disk, dirs, repo_root, Candidates(import_path), import_path)
    ELSE [raised |-> FALSE, value |-> import_path]

(***************************************************************************)
(* parser.parse_file.  files maps the absolute path (segments) of every    *)
(* regular file to what the scanner can see of it: whether open() and      *)
(* read() succeed, and, per category of PATTERNS, the list findall returns *)
(* for the patterns of the category in turn.                               *)
(***************************************************************************)
Sep == <<":", ":">>

ClassStep(rel_path, match) ==
    LET cid == rel_path \o Sep \o match
    IN  [nodes |-> << [id |-> cid, type |-> <<"class", ":">> \o match] >>,
         links |-> << [source |-> rel_path, target |-> cid] >>]

\* FunctionStep gone wrong: the containment link is left out
FunctionStep_NoLink(rel_path, name) ==
    [nodes |-> << [id |-> rel_path \o Sep \o name, type |-> <<"function", ":">> \o name] >>,
     links |-> << >>]

FunctionStep(rel_path, name) ==
    LET fid == rel_path \o Sep \o name
    IN  [nodes |-> << [id |-> fid, type |-> <<"function", ":">> \o name] >>,
         links |-> << [source |-> rel_path, target |-> fid] >>]

ImportStep(rel_path, imp, target) ==
    [nodes |-> << [id |-> target,
                   type |-> IF target = imp THEN <<"external", ":">> \o imp ELSE <<"file">>] >>,
     links |-> << [source |-> rel_path, target |-> target] >>]

\* ExtendsStep gone wrong: the base class gets a link and no node
ExtendsStep_NoNode(rel_path, base) ==
    [nodes |-> << >>,
     links |-> << [source |-> rel_path, target |-> base] >>]

ExtendsStep(rel_path, base) ==
    [nodes |-> << [id |-> base, type |-> <<"class", ":">> \o base] >>,
     links |-> << [source |-> rel_path, target |-> base] >>]

Emit(acc, step) ==
    [acc EXCEPT !.nodes = @ \o step.nodes, !.links = @ \o step.links]

RECURSIVE ClassPhase(_, _, _)
ClassPhase(rel_path, matches, acc) ==
    IF matches = <<>> THEN acc
    ELSE ClassPhase(rel_path, Tail(matches), Emit(acc, ClassStep(rel_path, Head(matches))))

RECURSIVE FunctionPhase(_, _, _)
FunctionPhase(rel_path, matches, acc) ==
    IF matches = <<>> THEN acc
    ELSE LET name == Strip(Head(matches))
         IN  FunctionPhase(rel_path, Tail(matches),
                           IF name # <<>> THEN Emit(acc, FunctionStep(rel_path, name)) ELSE acc)

\* the loop stops at the first resolve_import that raises: acc.raised
RECURSIVE ImportPhase(_, _, _, _, _, _)
ImportPhase(disk, dirs, repo_root, rel_path, matches, acc) ==
    IF matches = <<>> THEN acc
    ELSE LET imp == Strip(Head(matches))
         IN  IF imp = <<>>
             THEN ImportPhase(disk, dirs, repo_root, rel_path, Tail(matches), acc)
             ELSE LET r == resolve_import(disk, dirs, imp, repo_root)
                  IN  IF r.raised THEN [acc EXCEPT !.raised = TRUE]
                      ELSE ImportPhase(disk, dirs, repo_root, rel_path, Tail(matches),
                                       Emit(acc, ImportStep(rel_path, imp, r.value)))

RECURSIVE ExtendsPhase(_, _, _)
ExtendsPhase(rel_path, matches, acc) ==
    IF matches = <<>> THEN acc
    ELSE LET base == Strip(Head(matches))
         IN  ExtendsPhase(rel_path, Tail(matches),
                          IF base # <<>> THEN Emit(acc, ExtendsStep(rel_path, base)) ELSE acc)

\* the files exists() sees: a dangling symbolic link is listed by its
\* directory, but does not exist and cannot be opened
Existing(files) == {f \in DOMAIN files : files[f].readable}

\* open(filepath) and f.read() succeed
CanRead(files, dirs, filepath) ==
    LET r == ResolveParts(DOMAIN files, dirs, <<>>, Path(filepath).parts)
    IN  r.ok /\ r.at \in DOMAIN files /\ files[r.at].readable

ContentOf(files, dirs, filepath) ==
    files[ResolveParts(DOMAIN files, dirs, <<>>, Path(filepath).parts).at]

parse_file(files, dirs, filepath, repo_root) ==
    LET rel_path == PathStr(RelativeTo(Path(filepath), Path(repo_root)).path)
        start    == [nodes  |-> << [id |-> rel_path, type |-> <<"file">>] >>,
                     links  |-> << >>,
                     raised |-> FALSE]
    IN  IF ~CanRead(files, dirs, filepath) THEN [start EXCEPT !.raised = TRUE]
        ELSE LET content == ContentOf(files, dirs, filepath)
                 a1 == ClassPhase(rel_path, content.class, start)
                 a2 == FunctionPhase(rel_path, content.function, a1)
                 a3 == ImportPhase(Existing(files), dirs, repo_root, rel_path, content.import, a2)
             IN  IF a3.raised THEN a3
                 ELSE ExtendsPhase(rel_path, content.extends, a3)

(***************************************************************************)
(* The random module: a generator state advanced by every draw.            *)
(***************************************************************************)
RngNext(s) == (5 * s + 3) % 4

\* random.uniform(-600, 600) as a function of the generator state
Uniform(s) == 400 * s - 600

(***************************************************************************)
(* parser.build_graph                                                      *)
(***************************************************************************)
HasId(all_nodes, nid) == \E i \in 1..Len(all_nodes) : all_nodes[i].id = nid

Positioned(n, rng) ==
    [id |-> n.id, type |-> n.type,
     x |-> Uniform(rng), y |-> Uniform(RngNext(rng)), z |-> Uniform(RngNext(RngNext(rng)))]

\* AddNode gone wrong: the membership test is dropped
AddNode_NoCheck(st, n) ==
    [st EXCEPT !.all_nodes = Append(@, Positioned(n, st.rng)),
               !.rng = RngNext(RngNext(RngNext(@)))]

\* AddNode gone wrong: a later node of the same id replaces the first
AddNode_LastWins(st, n) ==
    IF HasId(st.all_nodes, n.id)
    THEN [st EXCEPT !.all_nodes = [i \in 1..Len(@) |->
                                      IF @[i].id = n.id THEN Positioned(n, st.rng) ELSE @[i]],
                    !.rng = RngNext(RngNext(RngNext(@)))]
    ELSE [st EXCEPT !.all_nodes = Append(@, Positioned(n, st.rng)),
                    !.rng = RngNext(RngNext(RngNext(@)))]

\* lines 125-132: all_nodes is the dict, kept as its values in insertion order
AddNode(st, n) ==
    IF HasId(st.all_nodes, n.id) THEN st
    ELSE [st EXCEPT !.all_nodes = Append(@, Positioned(n, st.rng)),
                    !.rng = RngNext(RngNext(RngNext(@)))]

RECURSIVE AddNodes(_, _)
AddNodes(st, nodes) ==
    IF nodes = <<>> THEN st ELSE AddNodes(AddNode(st, Head(nodes)), Tail(nodes))

\* one iteration of the loop over files, lines 122-133
ScanInto(st, files, dirs, filepath, repo_path) ==
    LET r == parse_file(files, dirs, filepath, repo_path)
    IN  [AddNodes(st, r.nodes) EXCEPT !.all_links = @ \o r.links]

\* LinkKey gone wrong: links are told apart by their target only
LinkKey_TargetOnly(l) == <<l.target, l.target>>

LinkKey(l) == <<l.source, l.target>>

RECURSIVE Dedup(_, _, _)
Dedup(all_links, seen, deduped_links) ==
    IF all_links = <<>> THEN deduped_links
    ELSE LET key == LinkKey(Head(all_links))
         IN  IF key \notin seen
             THEN Dedup(Tail(all_links), seen \cup {key}, Append(deduped_links, Head(all_links)))
             ELSE Dedup(Tail(all_links), seen, deduped_links)

\* the files os.walk yields that pass the extension filter, as paths below repo_path
Walked(disk, repo_path) ==
    LET root == Path(repo_path).parts
    IN  { SubSeq(f, Len(root) + 1, Len(f)) :
            f \in { g \in disk :
                      /\ IsPrefix(root, g) /\ Len(g) > Len(root)
                      /\ \A i \in (Len(root) + 1)..(Len(g) - 1) : g[i] \notin IGNORE_DIRS
                      /\ HasSupportedExt(g[Len(g)]) } }

\* os.walk is top-down: a directory's own files come first, in any order,
\* then each subdirectory's whole subtree, in any order
IsWalkOrder(s) ==
    \A k \in 1..Len(s) : \A n \in 0..(Len(s[k]) - 1) :
        LET d      == SubSeq(s[k], 1, n)
            inside == {i \in 1..Len(s) : IsPrefix(d, s[i])}
            own    == {i \in inside : Len(s[i]) = n + 1}
        IN  /\ \A i \in inside, j \in inside : \A m \in i..j : m \in inside
            /\ \A i \in own, j \in inside \ own : i < j

WalkOrders(disk, repo_path) ==
    LET w == Walked(disk, repo_path)
        n == Cardinality(w)
    IN  { s \in [1..n -> w] : (\A i, j \in 1..n : s[i] = s[j] => i = j) /\ IsWalkOrder(s) }

RECURSIVE ScanAll(_, _, _, _, _)
ScanAll(st, files, dirs, order, repo_path) ==
    IF order = <<>> THEN st
    ELSE ScanAll(ScanInto(st, files, dirs,
                          OsPathJoin(repo_path, JoinSegs(Head(order))), repo_path),
                 files, dirs, Tail(order), repo_path)

\* build_graph for one enumeration order of os.walk; rng is the generator state
build_graph(files, dirs, repo_path, order, rng) ==
    LET st == ScanAll([all_nodes |-> <<>>, all_links |-> <<>>, rng |-> rng],
                      files, dirs, order, repo_path)
    IN  [nodes |-> st.all_nodes, links |-> Dedup(st.all_links, {}, <<>>), rng |-> st.rng]

(***************************************************************************)
(* main.py configuration and the world around the server                   *)
(***************************************************************************)
TEMP_DIR == <<"/", "tmp", "/", "dev-graph-temp">>

REPO_DIR == OsPathJoin(TEMP_DIR, <<"live-repo">>)

\* import tokens and names that occur in the repositories below
TokHelpers  == <<".", "/", "utils", "/", "helpers">>
TokLibX     == <<"@", "lib", "/", "x">>
TokLibXExt  == <<"@", "lib", "/", "x", ".", "ts">>
TokPkg      == <<".", "/", "node_modules", "/", "pkg", ".", "js">>
TokStdio    == <<"/", "usr", "/", "include", "/", "stdio", ".", "h">>
TokLodash   == <<"lodash">>
TokBlank    == <<" ", " ">>

File(class, function, import, extends) ==
    [readable |-> TRUE, class |-> class, function |-> function,
     import |-> import, extends |-> extends]

\* a file open() fails on (a dangling symbolic link)
Dangling == [readable |-> FALSE, class |-> <<>>, function |-> <<>>,
             import |-> <<>>, extends |-> <<>>]

APy1 == File(<<>>, << <<"run">> >>, << TokLodash >>, << <<"Base">> >>)

\* a.py after the edit that adds function foo
APy2 == File(<<>>, << <<"run">>, <<"foo">> >>, << TokLodash >>, << <<"Base">> >>)

\* a.py in a tree that holds @lib/x.ts
APy3 == File(<<>>, << <<"run">>, <<"foo">> >>, << TokLodash, TokLibXExt >>, << <<"Base">> >>)

BPy == File(<< <<"Base">> >>, << <<"run">> >>,
            << <<"Base">>, TokLodash, TokStdio, <<"after">> >>, << <<"Object">> >>)

AppTs == File(<< <<"App">> >>, << <<"main">>, <<"main">> >>,
              << TokHelpers, TokBlank, TokLodash, TokLibX >>, << <<"Base">> >>)

HelpersTs == File(<<>>, << <<"help">> >>, << TokLibXExt >>, <<>>)

XTs == File(<<>>, <<>>, << TokPkg, TokLodash >>, << <<"Base">> >>)

PkgJs == File(<<>>, << <<"hidden">> >>, <<>>, <<>>)

PathA       == << <<"a", ".", "py">> >>
PathB       == << <<"b", ".", "py">> >>
PathApp     == << <<"app", ".", "ts">> >>
PathHelpers == << <<"utils">>, <<"helpers", ".", "ts">> >>
PathX       == << <<"@", "lib">>, <<"x", ".", "ts">> >>
PathPkg     == << <<"node_modules">>, <<"pkg", ".", "js">> >>
PathLink    == << <<"link", ".", "py">> >>

\* the trees the remote repository can be at, by path below the repository root
Revisions ==
    << (PathA :> APy1) @@ (PathB :> BPy),
       (PathA :> APy2) @@ (PathB :> BPy),
       (PathApp :> AppTs) @@ (PathHelpers :> HelpersTs) @@ (PathX :> XTs) @@ (PathPkg :> PkgJs),
       (PathA :> APy3) @@ (PathLink :> Dangling) @@ (PathX :> XTs) @@ (PathPkg :> PkgJs) >>

\* files of the machine outside the repository directory
OutsideFiles ==
    (<< <<"usr">>, <<"include">>, <<"stdio", ".", "h">> >> :> File(<<>>, <<>>, <<>>, <<>>))

RepoParts == Path(REPO_DIR).parts

\* the filesystem with tree checked out at REPO_DIR
Checkout(tree) ==
    [f \in {RepoParts \o r : r \in DOMAIN tree} |->
        tree[SubSeq(f, Len(RepoParts) + 1, Len(f))]] @@ OutsideFiles

\* websocket connections
Sockets == {"w1", "w2"}

\* the lists of modified and added paths a push payload may carry
Payloads ==
    { << JoinSegs(PathA) >>, << JoinSegs(PathB) >>, << JoinSegs(PathX), JoinSegs(PathA) >> }

\* merges into one accumulator before the next full build
MaxMerges == 1

(***************************************************************************)
(* The incremental merger, build_graph_incremental(REPO_DIR, changed):     *)
(* main.py imports and calls it, parser.py does not define it.  It is      *)
(* modelled from the specification's section 4.6: every changed path that  *)
(* exists is scanned with parse_file and folded into the accumulator of    *)
(* the full build under the same rules; a path that no longer exists is    *)
(* skipped.                                                                *)
(***************************************************************************)
RECURSIVE MergeScan(_, _, _, _, _)
MergeScan(st, files, dirs, changed_files, repo_path) ==
    IF changed_files = <<>> THEN st
    ELSE LET filepath == OsPathJoin(repo_path, Head(changed_files))
             full     == Path(filepath)
         IN  MergeScan(IF PathExists(Existing(files), dirs, full)
                       THEN ScanInto(st, files, dirs, filepath, repo_path)
                       ELSE st,
                       files, dirs, Tail(changed_files), repo_path)

MergeIncremental(acc, files, dirs, repo_path, changed_files, rng) ==
    LET st == MergeScan([all_nodes |-> acc.nodes, all_links |-> acc.links, rng |-> rng],
                        files, dirs, changed_files, repo_path)
    IN  [nodes |-> st.all_nodes, links |-> Dedup(st.all_links, {}, <<>>), rng |-> st.rng]

(***************************************************************************)
(* State                                                                   *)
(***************************************************************************)
VARIABLES
    files,       \* the filesystem: absolute path of each regular file -> its content
    cloned,      \* REPO_DIR exists
    head,        \* the revision checked out at REPO_DIR (0: none)
    rng,         \* state of the random module's generator
    state,       \* the accumulator the merger folds into: [nodes, links]
    merges,      \* merges into state since the last full build
    ingest,      \* the last response of POST /ingest
    ws_clients,  \* main.ws_clients
    open,        \* websockets whose connection is up
    hook         \* the github_webhook coroutine and its last response

vars == <<files, cloned, head, rng, state, merges, ingest, ws_clients, open, hook>>

NoGraph == [nodes |-> <<>>, links |-> <<>>]

IdleHook == [pc |-> "idle", i |-> 1, sent |-> {}, failed |-> "none",
             status |-> "none", changed |-> <<>>]

Init ==
    /\ files = OutsideFiles
    /\ cloned = FALSE
    /\ head = 0
    /\ rng \in 0..3
    /\ state = NoGraph
    /\ merges = 0
    /\ ingest = [kind |-> "none", rev |-> 0, order |-> <<>>, rng0 |-> 0,
                 graph |-> NoGraph, again |-> FALSE]
    /\ ws_clients = <<>>
    /\ open = {}
    /\ hook = IdleHook

(***************************************************************************)
(* POST /ingest.  Either git clone fails, or it brings the revision clone  *)
(* the url is at and os.walk enumerates it in some order.  Besides the     *)
(* response, ingest records how the build ran: the revision, the order of  *)
(* the walk, the generator state it started from, and whether the build    *)
(* before it was of the same revision in another order.                    *)
(***************************************************************************)
IngestFailed ==
    /\ files' = OutsideFiles
    /\ cloned' = FALSE
    /\ head' = 0
    /\ ingest' = [kind |-> "error", rev |-> 0, order |-> <<>>, rng0 |-> rng,
                  graph |-> NoGraph, again |-> FALSE]
    /\ UNCHANGED <<rng, state, merges, ws_clients, open, hook>>

IngestBuilt(clone, order) ==
    \E g \in {build_graph(Checkout(Revisions[clone]), {RepoParts}, REPO_DIR, order, rng)} :
        /\ files' = Checkout(Revisions[clone])
        /\ cloned' = TRUE
        /\ head' = clone
        /\ rng' = g.rng
        /\ ingest' = [kind |-> "graph", rev |-> clone, order |-> order, rng0 |-> rng,
                      graph |-> [nodes |-> g.nodes, links |-> g.links],
                      again |-> /\ ingest.kind = "graph" /\ ingest.rev = clone
                                /\ ingest.order # order]
        /\ state' = [nodes |-> g.nodes, links |-> g.links]
        /\ merges' = 0
        /\ UNCHANGED <<ws_clients, open, hook>>

ingest_repo(revs) ==
    \/ IngestFailed
    \/ \E clone \in revs :
         \E order \in WalkOrders(DOMAIN Checkout(Revisions[clone]), REPO_DIR) :
            IngestBuilt(clone, order)

(***************************************************************************)
(* WebSocket /updates                                                      *)
(***************************************************************************)
RECURSIVE RemoveFirst(_, _)
RemoveFirst(s, e) ==
    IF s = <<>> THEN <<>>
    ELSE IF Head(s) = e THEN Tail(s)
    ELSE <<Head(s)>> \o RemoveFirst(Tail(s), e)

\* accept, append, and wait in receive_text
websocket_endpoint(ws) ==
    /\ ws \notin open
    /\ ws \notin Range(ws_clients)
    /\ open' = open \cup {ws}
    /\ ws_clients' = Append(ws_clients, ws)
    /\ UNCHANGED <<files, cloned, head, rng, state, merges, ingest, hook>>

\* the peer goes away
ClientClose(ws) ==
    /\ ws \in open
    /\ open' = open \ {ws}
    /\ UNCHANGED <<files, cloned, head, rng, state, merges, ingest, ws_clients, hook>>

\* receive_text raises in the endpoint's coroutine: the except branch
websocket_except(ws) ==
    /\ ws \notin open
    /\ ws \in Range(ws_clients)
    /\ ws_clients' = RemoveFirst(ws_clients, ws)
    /\ UNCHANGED <<files, cloned, head, rng, state, merges, ingest, open, hook>>

(***************************************************************************)
(* POST /webhook                                                           *)
(***************************************************************************)
\* the for loop at the list index h.i: the end of the list returns
\* {"status": "ok"}; send_json on a connection that is down raises, and
\* nothing catches it; otherwise the coroutine waits in the send
Broadcast(h, clients, up) ==
    IF h.i > Len(clients) THEN [h EXCEPT !.pc = "idle", !.status = "ok"]
    ELSE IF clients[h.i] \in up
         THEN [h EXCEPT !.pc = "sending", !.i = @ + 1, !.sent = @ \cup {clients[h.i]}]
         ELSE [h EXCEPT !.pc = "idle", !.status = "error", !.failed = clients[h.i]]

\* the request is turned down before anything is touched: the signature
\* header is missing (compare_digest(None, mac) raises TypeError) or wrong
\* (403), or git -C REPO_DIR pull fails (check=True raises)
WebhookRejected(sig) ==
    /\ hook.pc = "idle"
    /\ \/ sig = "missing" /\ hook' = [IdleHook EXCEPT !.status = "error"]
       \/ sig = "invalid" /\ hook' = [IdleHook EXCEPT !.status = "forbidden"]
       \/ sig = "valid" /\ ~cloned /\ hook' = [IdleHook EXCEPT !.status = "error"]
    /\ UNCHANGED <<files, cloned, head, rng, state, merges, ingest, ws_clients, open>>

\* a signed push, up to the first send.  pulled: the revision git pull
\* brings; changed_files: the modified and added paths of the commits
WebhookAccepted(pulled, changed_files) ==
    /\ hook.pc = "idle"
    /\ cloned
    /\ merges < MaxMerges
    /\ \E g \in {MergeIncremental(state, Checkout(Revisions[pulled]), {RepoParts},
                                  REPO_DIR, changed_files, rng)} :
        /\ files' = Checkout(Revisions[pulled])
        /\ head' = pulled
        /\ rng' = g.rng
        /\ state' = [nodes |-> g.nodes, links |-> g.links]
        /\ merges' = merges + 1
        /\ hook' = Broadcast([IdleHook EXCEPT !.changed = changed_files], ws_clients, open)
        /\ UNCHANGED <<cloned, ingest, ws_clients, open>>

Signatures == {"missing", "invalid", "valid"}

\* the remote moves forward along Revisions: a pull brings the revision
\* checked out or its successor
github_webhook(revs, payloads) ==
    \/ \E sig \in Signatures : WebhookRejected(sig)
    \/ \E pulled \in {head, head + 1} \cap revs, changed_files \in payloads :
          WebhookAccepted(pulled, changed_files)

\* the coroutine resumes after a send
webhook_resume ==
    /\ hook.pc = "sending"
    /\ hook' = Broadcast(hook, ws_clients, open)
    /\ UNCHANGED <<files, cloned, head, rng, state, merges, ingest, ws_clients, open>>

AllRevs == 1..Len(Revisions)

(***************************************************************************)
(* Specifications.  Spec: the graph engine over every revision, with no    *)
(* viewer connected.  SpecLive: the server with viewers, over the first    *)
(* revision.                                                              *)
(***************************************************************************)
Next ==
    \/ ingest_repo(AllRevs)
    \/ github_webhook(AllRevs, Payloads)

Spec == Init /\ [][Next]_vars

LiveRevs == {1}

NextLive ==
    \/ ingest_repo(LiveRevs)
    \/ github_webhook(LiveRevs, { << JoinSegs(PathA) >> })
    \/ webhook_resume
    \/ \E ws \in Sockets : websocket_endpoint(ws)
    \/ \E ws \in Sockets : ClientClose(ws)
    \/ \E ws \in Sockets : websocket_except(ws)

SpecLive == Init /\ [][NextLive]_vars

(***************************************************************************)
(* Properties                                                              *)
(***************************************************************************)
Ids(g) == {g.nodes[i].id : i \in 1..Len(g.nodes)}

Pairs(g) == {<<g.links[i].source, g.links[i].target>> : i \in 1..Len(g.links)}

NodeOf(g, nid) == g.nodes[CHOOSE i \in 1..Len(g.nodes) : g.nodes[i].id = nid]

Built == ingest.kind = "graph"

\* the tree the last full build ran over, and the files it scanned
BuiltTree == Revisions[ingest.rev]

RelStr(p) == JoinSegs(p)

IdOf(p, name) == RelStr(p) \o Sep \o name

IsMerge == merges' = merges + 1

\* C1: a merge of changed files into the graph G of an earlier full build
\* returns the full updated graph: every node of G is still there with its
\* id, type and coordinates (so, in particular, every node that came from a
\* file not in the list), every link of G is still there, everything a scan
\* of a changed file finds is added (for a function foo of a.py the node
\* a.py::foo and the link a.py -> a.py::foo), and what is new comes from
\* the changed files only: no other file is scanned again.
C1_MergeIncremental ==
    [][IsMerge =>
        /\ \A k \in 1..Len(state.nodes) :
              k <= Len(state'.nodes) /\ state'.nodes[k] = state.nodes[k]
        /\ Pairs(state) \subseteq Pairs(state')
        /\ \A c \in Range(hook'.changed) :
              CanRead(files', {RepoParts}, OsPathJoin(REPO_DIR, c)) =>
                 LET content == ContentOf(files', {RepoParts}, OsPathJoin(REPO_DIR, c))
                     found   == parse_file(files', {RepoParts}, OsPathJoin(REPO_DIR, c), REPO_DIR)
                 IN  /\ c \in Ids(state')
                     /\ \A name \in Range(content.function) :
                           Strip(name) # <<>> =>
                              /\ c \o Sep \o Strip(name) \in Ids(state')
                              /\ <<c, c \o Sep \o Strip(name)>> \in Pairs(state')
                     /\ \A name \in Range(content.class) :
                           /\ c \o Sep \o name \in Ids(state')
                           /\ <<c, c \o Sep \o name>> \in Pairs(state')
                     /\ Ids(found) \subseteq Ids(state')
                     /\ Pairs(found) \subseteq Pairs(state')
        /\ \A l \in Pairs(state') \ Pairs(state) : l[1] \in Range(hook'.changed)
        /\ \A nid \in Ids(state') \ Ids(state) :
              \/ nid \in Range(hook'.changed)
              \/ \E l \in Pairs(state') \ Pairs(state) : l[2] = nid
    ]_vars

\* the scenario of the claim: G built over {a.py, b.py}, a.py edited to add
\* foo, and ["a.py"] merged
C1_Witness ==
    /\ merges = 1 /\ Built /\ ingest.rev = 1 /\ head = 2
    /\ hook.changed = << RelStr(PathA) >>
    /\ IdOf(PathA, <<"foo">>) \in Ids(state) \ Ids(ingest.graph)
    /\ <<RelStr(PathA), IdOf(PathA, <<"foo">>)>> \in Pairs(state)
    /\ \A nid \in Ids(ingest.graph) : NodeOf(state, nid) = NodeOf(ingest.graph, nid)

\* C2: the links returned by a build hold no (source, target) pair twice,
\* and the nodes no id twice.
C2_DedupInvariant ==
    Built =>
        /\ \A i, j \in 1..Len(ingest.graph.links) :
              (/\ ingest.graph.links[i].source = ingest.graph.links[j].source
               /\ ingest.graph.links[i].target = ingest.graph.links[j].target) => i = j
        /\ \A i, j \in 1..Len(ingest.graph.nodes) :
              ingest.graph.nodes[i].id = ingest.graph.nodes[j].id => i = j

\* a build in which one file yields the same function twice and three files
\* import the same module
C2_Witness ==
    /\ Built /\ ingest.rev = 3
    /\ IdOf(PathApp, <<"main">>) \in Ids(ingest.graph)
    /\ {<<RelStr(PathApp), TokLodash>>, <<RelStr(PathX), TokLodash>>} \subseteq Pairs(ingest.graph)

\* C3: in the graph a build returns, both ends of every link are ids of
\* returned nodes.
C3_LinkEndpointsExist ==
    Built =>
        \A i \in 1..Len(ingest.graph.links) :
            /\ ingest.graph.links[i].source \in Ids(ingest.graph)
            /\ ingest.graph.links[i].target \in Ids(ingest.graph)

\* a build with containment, import and inheritance links in which the scan
\* of b.py stopped at an import that raised
C3_Witness ==
    /\ Built /\ ingest.rev = 2
    /\ <<RelStr(PathA), IdOf(PathA, <<"foo">>)>> \in Pairs(ingest.graph)
    /\ <<RelStr(PathA), <<"Base">>>> \in Pairs(ingest.graph)
    /\ <<RelStr(PathB), TokLodash>> \in Pairs(ingest.graph)
    /\ <<"after">> \notin Ids(ingest.graph)

\* the full build of the first k files of the last build's scan order
PrefixBuild(k) ==
    build_graph(Checkout(BuiltTree), {RepoParts}, REPO_DIR, SubSeq(ingest.order, 1, k),
                ingest.rng0)

\* C4: first insertion wins.  Whatever the accumulator holds after the
\* first k files of a full build is in the build's result with the same
\* type and coordinates, whichever later file yields the same id; and a
\* merge leaves every node the accumulator holds as it is.
C4_FirstInsertionWins ==
    /\ [](Built =>
            \A k \in 1..Len(ingest.order) :
                \A j \in 1..Len(PrefixBuild(k).nodes) :
                    /\ j <= Len(ingest.graph.nodes)
                    /\ ingest.graph.nodes[j] = PrefixBuild(k).nodes[j])
    /\ [][IsMerge =>
            \A j \in 1..Len(state.nodes) :
                j <= Len(state'.nodes) /\ state'.nodes[j] = state.nodes[j]]_vars

\* b.py, scanned first, yields Base as an external module; a.py yields it
\* as a class, in the full build and again in a merge
C4_Witness ==
    /\ Built /\ ingest.rev = 1 /\ merges = 1
    /\ ingest.order = <<PathB, PathA>>
    /\ hook.changed = << RelStr(PathA) >>
    /\ <<RelStr(PathA), <<"Base">>>> \in Pairs(state)
    /\ NodeOf(state, <<"Base">>) = NodeOf(PrefixBuild(1), <<"Base">>)
    /\ NodeOf(state, <<"Base">>).type = <<"external", ":", "Base">>

\* C5: two full builds of one tree, in whatever orders the walk enumerates
\* it, return the same set of node ids and the same set of (source, target)
\* pairs.
C5_TopologyDeterministic ==
    [][(Built /\ ingest'.kind = "graph" /\ ingest'.rev = ingest.rev) =>
          /\ Ids(ingest'.graph) = Ids(ingest.graph)
          /\ Pairs(ingest'.graph) = Pairs(ingest.graph)]_vars

\* a second build of {a.py, b.py} that walked it in the other order
C5_Witness ==
    /\ Built /\ ingest.again /\ ingest.rev = 1
    /\ <<RelStr(PathA), TokLodash>> \in Pairs(ingest.graph)
    /\ <<RelStr(PathB), TokLodash>> \in Pairs(ingest.graph)

\* the files of the built tree the scan read, as paths below the root
Scanned == {p \in Range(ingest.order) : BuiltTree[p].readable}

\* C6: an import "./<path>" without extension, where <path> plus a
\* supported extension is a file of the repository, yields a link to that
\* file's repository-relative path, and no node for the token.
C6_RelativeImportResolves ==
    Built =>
        \A p \in Scanned : \A t \in Range(BuiltTree[p].import) :
            \A e \in Range(SUPPORTED_EXTENSIONS) :
                (/\ StartsWith(t, <<".", "/">>)
                 /\ ~HasSupportedExt(t)
                 /\ Path(SubSeq(t, 3, Len(t)) \o e).parts \in DOMAIN BuiltTree)
                => /\ <<RelStr(p), SubSeq(t, 3, Len(t)) \o e>> \in Pairs(ingest.graph)
                   /\ t \notin Ids(ingest.graph)

\* C7: import resolution never raises: every extends match of a scanned
\* file, and every import of a bare module name, has its link in the graph,
\* whatever other imports the file holds.
C7_ImportNeverRaises ==
    Built =>
        \A p \in Scanned :
            /\ \A base \in Range(BuiltTree[p].extends) :
                  <<RelStr(p), base>> \in Pairs(ingest.graph)
            /\ \A t \in Range(BuiltTree[p].import) :
                  (Strip(t) # <<>> /\ Head(Strip(t)) \notin {".", "/", "@"})
                  => <<RelStr(p), Strip(t)>> \in Pairs(ingest.graph)

\* the directories on the way to a file
UnderIgnored(p) == \E i \in 1..(Len(p) - 1) : p[i] \in IGNORE_DIRS

\* C8: no file below a directory of the ignore set is a node of the built
\* graph.
C8_IgnoredNeverNode ==
    Built =>
        \A p \in DOMAIN BuiltTree : UnderIgnored(p) => RelStr(p) \notin Ids(ingest.graph)

\* C9: a send that fails takes the viewer out of ws_clients and does not
\* fail the request.
C9_SendFailureTolerated ==
    hook.failed # "none" =>
        /\ hook.status # "error"
        /\ hook.failed \notin Range(ws_clients)

\* C10: a node typed external: is no file of the repository.
C10_ExternalOnlyWhenMissing ==
    Built =>
        \A i \in 1..Len(ingest.graph.nodes) :
            StartsWith(ingest.graph.nodes[i].type, <<"external", ":">>)
            => Path(ingest.graph.nodes[i].id).parts \notin DOMAIN BuiltTree

====
